---- MODULE Spec2Model ----
(***************************************************************************)
(* Wallpaper SaaS backend (src/main.py): token-based identity, the         *)
(* subscription state of users, and the watermark / download gating of the *)
(* wallpaper catalog.                                                      *)
(*                                                                         *)
(* Time is counted in minutes.  A MongoDB collection is a sequence of      *)
(* documents in insertion order; the ObjectId of the n-th document of a    *)
(* collection is n and str(ObjectId) is ToString(n).  A Python None is the *)
(* empty sequence and a present optional value v is <<v>>.                 *)
(***************************************************************************)
EXTENDS Integers, Sequences, FiniteSets, TLC

VARIABLES now, ticks, users, wallpapers, response, procs

vars == <<now, ticks, users, wallpapers, response, procs>>

(***************************** bounds **************************************)
MaxTicks == 1          \* clock advances in one behaviour
MaxCreated == 1        \* wallpapers inserted through POST /admin/wallpapers
MaxDownloads == 1      \* cap of one wallpaper's downloads counter
MaxProcs == 2          \* requests in flight at once (interleaved runs)

(************************* program constants *******************************)
SECRET_KEY == "supersecret-key-change"
ACCESS_TOKEN_EXPIRE_MINUTES == 60 * 24 * 7
PLAN_DAYS == 30
PlanMinutes == PLAN_DAYS * 24 * 60
VALID_PLANS_with_gold == {"free", "pro", "elite", "gold"}
VALID_PLANS == {"free", "pro", "elite"}
WM_MARKER == "?wm=1"
DEFAULT_RESOLUTION == "3840x2160"

None == <<>>
Some(v) == <<v>>

(* dict helpers: d.get(k), d.pop(k), d[k] = v, {**d, **e} *)
Get(d, k) == IF k \in DOMAIN d THEN Some(d[k]) ELSE None
Pop(d, k) == [f \in DOMAIN d \ {k} |-> d[f]]
Put(d, k, v) == [f \in DOMAIN d \cup {k} |-> IF f = k THEN v ELSE d[f]]
Merge(d, e) == [f \in DOMAIN d \cup DOMAIN e |-> IF f \in DOMAIN e THEN e[f] ELSE d[f]]

(* str(ObjectId) and ObjectId(str): only the strings that str() produces    *)
(* parse; every other string raises bson.errors.InvalidId.                  *)
Str(oid) == ToString(oid)
Oids == 1..(MaxCreated + MaxProcs + 6)
IsObjectIdString(s) == \E n \in Oids : Str(n) = s
ObjectId(s) == CHOOSE n \in Oids : Str(n) = s

(* find_one({"_id": oid}) / find_one({"email": e}): the first match or None *)
FindById(coll, oid) == IF oid \in 1..Len(coll) THEN Some(coll[oid]) ELSE None
FindOneBy(coll, k, v) ==
    IF \E i \in 1..Len(coll) : coll[i][k] = v
    THEN Some(coll[CHOOSE i \in 1..Len(coll) :
                     /\ coll[i][k] = v
                     /\ \A j \in 1..(i - 1) : coll[j][k] # v])
    ELSE None
(* insert_one(doc): the store assigns the next _id *)
InsertOne(coll, doc) == Append(coll, Put(doc, "_id", Len(coll) + 1))
UpdateSet_no_filter(coll, oid, fields) ==
    [i \in 1..Len(coll) |-> Merge(coll[i], fields)]

(* update_one({"_id": oid}, {"$set": fields}) *)
UpdateSet(coll, oid, fields) ==
    [i \in 1..Len(coll) |-> IF i = oid THEN Merge(coll[i], fields) ELSE coll[i]]
UpdateInc_no_filter(coll, oid, k, n) ==
    [i \in 1..Len(coll) |-> Put(coll[i], k, coll[i][k] + n)]

(* update_one({"_id": oid}, {"$inc": {k: n}}): one atomic store operation *)
UpdateInc(coll, oid, k, n) ==
    [i \in 1..Len(coll) |-> IF i = oid THEN Put(coll[i], k, coll[i][k] + n) ELSE coll[i]]

(**************************** utils ****************************************)
hash_password(password) == "$2b$" \o password
verify_password(plain, hashed) == hashed = "$2b$" \o plain

(* jose jwt.encode: the claims and an HS256 MAC of the claims under the key *)
Mac(key, claims) == <<key, claims>>
JwtEncode(claims, key) == [claims |-> claims, sig |-> Mac(key, claims)]
JwtDecode_no_signature(token, key, t) ==
    IF "exp" \in DOMAIN token.claims /\ token.claims.exp < t
    THEN [ok |-> FALSE, payload |-> None]
    ELSE [ok |-> TRUE, payload |-> Some(token.claims)]

JwtDecode_no_expiry(token, key, t) ==
    IF token.sig # Mac(key, token.claims) THEN [ok |-> FALSE, payload |-> None]
    ELSE [ok |-> TRUE, payload |-> Some(token.claims)]

(* jose jwt.decode: JWTError on a bad signature and on exp < now *)
JwtDecode(token, key, t) ==
    IF token.sig # Mac(key, token.claims) THEN [ok |-> FALSE, payload |-> None]
    ELSE IF "exp" \in DOMAIN token.claims /\ token.claims.exp < t
         THEN [ok |-> FALSE, payload |-> None]
    ELSE [ok |-> TRUE, payload |-> Some(token.claims)]

create_access_token(data, t) ==
    JwtEncode(Put(data, "exp", t + ACCESS_TOKEN_EXPIRE_MINUTES), SECRET_KEY)

(* An Authorization header is None or <<scheme, token>>, where token is None *)
(* when nothing follows the scheme (authorization.partition(" ")).          *)
Lower(scheme) == IF scheme \in {"Bearer", "BEARER", "bearer"} THEN "bearer" ELSE scheme

Http(status, detail) == [status |-> status, detail |-> detail, user |-> None]

get_current_user(us, authorization, t) ==
    IF authorization = None THEN Http(401, "Not authenticated")
    ELSE LET scheme == authorization[1]
             token == authorization[2]
         IN IF Lower(scheme) # "bearer" \/ token = None
            THEN Http(401, "Invalid auth header")
            ELSE LET dec == JwtDecode(token[1], SECRET_KEY, t)
                 IN IF ~dec.ok THEN Http(401, "Invalid token")
                    ELSE LET user_id == Get(dec.payload[1], "sub")
                         IN IF user_id = None THEN Http(401, "Invalid token")
                            ELSE IF ~IsObjectIdString(user_id[1])
                                 THEN Http(500, "Internal Server Error")
                            ELSE LET user == FindById(us, ObjectId(user_id[1]))
                                 IN IF user = None THEN Http(401, "User not found")
                                    ELSE [status |-> 200, detail |-> "",
                                          user |-> Some(Pop(Put(user[1], "id",
                                                       Str(user[1]["_id"])), "_id"))]

(**************************** inputs ***************************************)
Emails == {"a@x.com", "admin@x.com"}
Passwords == {"pw", "other"}
Plans == VALID_PLANS \cup {"gold"}

(**************************** documents ************************************)
UserDoc_role_admin(name, email, password, t) ==
    [name |-> name, email |-> email, password_hash |-> hash_password(password),
     role |-> "admin", subscribed |-> FALSE, plan |-> "free", plan_ends_at |-> None,
     created_at |-> t, updated_at |-> t]

UserDoc(name, email, password, t) ==
    [name |-> name, email |-> email, password_hash |-> hash_password(password),
     role |-> "user", subscribed |-> FALSE, plan |-> "free", plan_ends_at |-> None,
     created_at |-> t, updated_at |-> t]

(* A user provisioned out of band with the admin role (no endpoint sets it) *)
AdminDoc ==
    Put(Put(UserDoc("root", "admin@x.com", "adminpw", 0), "role", "admin"), "_id", 1)

(* WallpaperCreate with its defaults (model_dump) *)
WallpaperCreate(title, category, image_url) ==
    [title |-> title, category |-> category, image_url |-> image_url,
     thumbnail_url |-> None, resolution |-> DEFAULT_RESOLUTION, tags |-> <<>>,
     is_live |-> FALSE, author |-> None]

Sample(title, category, image_url, tags) ==
    [title |-> title, category |-> category, image_url |-> image_url,
     thumbnail_url |-> Some(image_url \o "?w=1200"), tags |-> tags]

samples ==
    << Sample("Galactic Neon Wave", "scenery",
              "https://images.unsplash.com/photo-1500530855697-b586d89ba3ee",
              <<"neon", "galaxy">>),
       Sample("Mystic Forest", "nature",
              "https://images.unsplash.com/photo-1501785888041-af3ef285b470",
              <<"forest", "fog">>),
       Sample("City Night Drive", "scenery",
              "https://images.unsplash.com/photo-1508057198894-247b23fe5ade",
              <<"city", "night">>),
       Sample("Anime Neon Alley", "anime",
              "https://images.unsplash.com/photo-1542396601-dca920ea2807",
              <<"anime", "neon">>) >>

(* the document seed_sample inserts for sample s *)
SeedDoc(s, t) ==
    Merge(s, [resolution |-> DEFAULT_RESOLUTION, is_live |-> FALSE, downloads |-> 0,
              created_at |-> t, updated_at |-> t])

RECURSIVE SeedFrom_no_lookup(_, _, _)
SeedFrom_no_lookup(ws, i, t) ==
    IF i > Len(samples) THEN ws
    ELSE SeedFrom_no_lookup(InsertOne(ws, SeedDoc(samples[i], t)), i + 1, t)

(* the loop of seed_sample from sample i on *)
RECURSIVE SeedFrom(_, _, _)
SeedFrom(ws, i, t) ==
    IF i > Len(samples) THEN ws
    ELSE IF FindOneBy(ws, "title", samples[i].title) = None
         THEN SeedFrom(InsertOne(ws, SeedDoc(samples[i], t)), i + 1, t)
         ELSE SeedFrom(ws, i + 1, t)

(************************ entitlement / listing ****************************)
list_subscribed_any_user(us, authorization, t) ==
    IF authorization = None THEN FALSE
    ELSE LET token == authorization[2]
         IN IF token = None THEN FALSE
            ELSE LET dec == JwtDecode(token[1], SECRET_KEY, t)
                 IN IF ~dec.ok THEN FALSE
                    ELSE LET user_id == Get(dec.payload[1], "sub")
                         IN IF user_id = None \/ user_id = Some("") THEN FALSE
                            ELSE IF ~IsObjectIdString(user_id[1]) THEN FALSE
                            ELSE FindById(us, ObjectId(user_id[1])) # None

(* the optional authentication of list_wallpapers: any failure is swallowed *)
list_subscribed(us, authorization, t) ==
    IF authorization = None THEN FALSE
    ELSE LET token == authorization[2]
         IN IF token = None THEN FALSE
            ELSE LET dec == JwtDecode(token[1], SECRET_KEY, t)
                 IN IF ~dec.ok THEN FALSE
                    ELSE LET user_id == Get(dec.payload[1], "sub")
                         IN IF user_id = None \/ user_id = Some("") THEN FALSE
                            ELSE IF ~IsObjectIdString(user_id[1]) THEN FALSE
                            ELSE LET user == FindById(us, ObjectId(user_id[1]))
                                 IN IF user = None THEN FALSE
                                    ELSE user[1].subscribed

(* a or b on optional strings *)
Or(a, b) == IF a = None \/ a = Some("") THEN b ELSE a

list_item_no_marker(w, subscribed) ==
    [id |-> Str(w["_id"]), title |-> w.title, category |-> w.category,
     resolution |-> w.resolution,
     thumbnail_url |-> Or(w.thumbnail_url, Some(w.image_url)),
     is_live |-> w.is_live,
     author |-> IF "author" \in DOMAIN w THEN w.author ELSE None,
     downloads |-> w.downloads,
     image_url |-> w.image_url,
     watermarked |-> ~subscribed]

list_item(w, subscribed) ==
    [id |-> Str(w["_id"]), title |-> w.title, category |-> w.category,
     resolution |-> w.resolution,
     thumbnail_url |-> Or(w.thumbnail_url, Some(w.image_url)),
     is_live |-> w.is_live,
     author |-> IF "author" \in DOMAIN w THEN w.author ELSE None,
     downloads |-> w.downloads,
     image_url |-> IF subscribed THEN w.image_url ELSE w.image_url \o WM_MARKER,
     watermarked |-> ~subscribed]

(* find(query).sort("created_at", -1).limit(limit): newest first; documents *)
(* are inserted at non-decreasing times, so this is reverse insertion order *)
RECURSIVE Cursor(_, _, _, _)
Cursor(ws, category, limit, i) ==
    IF i = 0 \/ limit = 0 THEN <<>>
    ELSE IF category = None \/ category = Some("") \/ ws[i].category = category[1]
         THEN <<ws[i]>> \o Cursor(ws, category, limit - 1, i - 1)
         ELSE Cursor(ws, category, limit, i - 1)

list_items(ws, category, limit, subscribed) ==
    LET found == Cursor(ws, category, limit, Len(ws))
    IN [i \in 1..Len(found) |-> list_item(found[i], subscribed)]

(**************************** request inputs *******************************)
(* tokens the service has issued to user u and that a client may present at *)
(* time t: issued just now, exactly ACCESS_TOKEN_EXPIRE_MINUTES ago, and a  *)
(* minute before that (never before the user was created)                   *)
IssueTimes(u, t) ==
    {it \in {t, t - ACCESS_TOKEN_EXPIRE_MINUTES, t - ACCESS_TOKEN_EXPIRE_MINUTES - 1} :
        it >= u.created_at}
IssuedTokens(us, t) ==
    UNION {{create_access_token([sub |-> Str(us[i]["_id"])], it) : it \in IssueTimes(us[i], t)} :
              i \in 1..Len(us)}
FreshTokens(us, t) ==
    {create_access_token([sub |-> Str(us[i]["_id"])], t) : i \in DOMAIN us}
(* an issued token with its payload edited and its signature left alone     *)
(* (the subject replaced by another user's, the expiry pushed back), or a   *)
(* token signed with a guessed key                                          *)
TamperedTokens(us, t) ==
    {[tok EXCEPT !.claims.sub = Str(1)] :
        tok \in FreshTokens(us, t) \ FreshTokens(SubSeq(us, 1, 1), t)}
    \cup {[tok EXCEPT !.claims.exp = t + ACCESS_TOKEN_EXPIRE_MINUTES] :
             tok \in {x \in IssuedTokens(us, t) : x.claims.exp < t}}
    \cup {JwtEncode([sub |-> Str(1), exp |-> t + ACCESS_TOKEN_EXPIRE_MINUTES], "guessed-key")}
(* correctly signed tokens the service never issues: no subject, a subject  *)
(* that is no stored user, a subject that is no ObjectId, an empty subject  *)
CraftedTokens(us, t) ==
    {JwtEncode([exp |-> t + ACCESS_TOKEN_EXPIRE_MINUTES], SECRET_KEY)}
    \cup {create_access_token([sub |-> s], t) : s \in {Str(Len(us) + 1), "not-an-oid", ""}}

Headers(us, t) ==
    {None, <<"Bearer", None>>}
    \cup {<<"Bearer", Some(tok)>> :
             tok \in IssuedTokens(us, t) \cup TamperedTokens(us, t) \cup CraftedTokens(us, t)}
    \cup {<<scheme, Some(tok)>> :
             scheme \in {"bearer", "Basic"}, tok \in FreshTokens(SubSeq(us, Len(us), Len(us)), t)}

Categories == {None, Some("nature")}
Limits == {2, 50}
WallpaperIds == {"1", "2", "not-an-oid"}
NewWallpapers == {WallpaperCreate("Mystic Forest", "nature", "https://cdn.example/forest.png")}
(* the clock advances by a token lifetime or by just over a plan period *)
TickSteps == {ACCESS_TOKEN_EXPIRE_MINUTES, PlanMinutes + 1}

(**************************** state ****************************************)
NoResponse == [op |-> "none", status |-> 0, body |-> None]
Error(op, status, detail) == [op |-> op, status |-> status, body |-> [detail |-> detail]]
Ok(op, body) == [op |-> op, status |-> 200, body |-> body]

Init ==
    /\ now = 0
    /\ ticks = 0
    /\ users \in {<<>>, <<AdminDoc>>}
    /\ wallpapers = <<>>
    /\ response = NoResponse
    /\ procs = [p \in 1..MaxProcs |-> [pc |-> "idle"]]

(* the clock moves between requests *)
Tick(d) ==
    /\ ticks < MaxTicks
    /\ now' = now + d
    /\ ticks' = ticks + 1
    /\ UNCHANGED <<users, wallpapers, response, procs>>

(**************************** handlers *************************************)
register(name, email, password) ==
    /\ IF FindOneBy(users, "email", email) # None
       THEN /\ response' = Error("register", 400, "Email already registered")
            /\ UNCHANGED users
       ELSE /\ users' = InsertOne(users, UserDoc(name, email, password, now))
            /\ response' = Ok("register",
                   [access_token |-> create_access_token([sub |-> Str(Len(users) + 1)], now),
                    token_type |-> "bearer"])
    /\ UNCHANGED <<now, ticks, wallpapers, procs>>

login(email, password) ==
    /\ LET user == FindOneBy(users, "email", email)
       IN IF user = None \/ ~verify_password(password, user[1].password_hash)
          THEN response' = Error("login", 401, "Invalid credentials")
          ELSE response' = Ok("login",
                   [access_token |-> create_access_token([sub |-> Str(user[1]["_id"])], now),
                    token_type |-> "bearer"])
    /\ UNCHANGED <<now, ticks, users, wallpapers, procs>>

me(authorization) ==
    /\ LET auth == get_current_user(users, authorization, now)
       IN IF auth.status # 200
          THEN response' = Error("me", auth.status, auth.detail)
          ELSE response' = Ok("me", auth.user[1])
    /\ UNCHANGED <<now, ticks, users, wallpapers, procs>>

subscription_always_subscribed(plan, t) ==
    [plan |-> plan, subscribed |-> TRUE, plan_ends_at |-> Some(t + PlanMinutes)]

(* the $set of subscribe and the body it returns *)
subscription(plan, t) ==
    LET subscribed == plan # "free"
    IN [plan |-> plan, subscribed |-> subscribed,
        plan_ends_at |-> IF subscribed THEN Some(t + PlanMinutes) ELSE None]

subscribe(plan, authorization) ==
    /\ LET auth == get_current_user(users, authorization, now)
       IN IF auth.status # 200
          THEN /\ response' = Error("subscribe", auth.status, auth.detail)
               /\ UNCHANGED users
          ELSE IF plan \notin VALID_PLANS
          THEN /\ response' = Error("subscribe", 400, "Invalid plan")
               /\ UNCHANGED users
          ELSE /\ users' = UpdateSet(users, ObjectId(auth.user[1].id),
                                     Put(subscription(plan, now), "updated_at", now))
               /\ response' = Ok("subscribe", Put(subscription(plan, now), "status", "ok"))
    /\ UNCHANGED <<now, ticks, wallpapers, procs>>

list_wallpapers(category, limit, authorization) ==
    /\ LET subscribed == list_subscribed(users, authorization, now)
       IN response' = Ok("list", [items |-> list_items(wallpapers, category, limit, subscribed),
                                  subscribed |-> subscribed])
    /\ UNCHANGED <<now, ticks, users, wallpapers, procs>>

download_wallpaper_counts_refused(wallpaper_id, authorization) ==
    /\ LET auth == get_current_user(users, authorization, now)
       IN IF auth.status # 200
          THEN /\ response' = Error("download", auth.status, auth.detail)
               /\ UNCHANGED wallpapers
          ELSE IF ~IsObjectIdString(wallpaper_id)
          THEN /\ response' = Error("download", 500, "Internal Server Error")
               /\ UNCHANGED wallpapers
          ELSE LET wp == FindById(wallpapers, ObjectId(wallpaper_id))
               IN IF wp = None
                  THEN /\ response' = Error("download", 404, "Wallpaper not found")
                       /\ UNCHANGED wallpapers
                  ELSE /\ wp[1].downloads < MaxDownloads
                       /\ wallpapers' = UpdateInc(wallpapers, ObjectId(wallpaper_id),
                                                  "downloads", 1)
                       /\ IF ~auth.user[1].subscribed
                          THEN response' = Error("download", 402,
                                   "Subscription required for full-resolution download")
                          ELSE response' = Ok("download", [url |-> wp[1].image_url])
    /\ UNCHANGED <<now, ticks, users, procs>>

download_wallpaper(wallpaper_id, authorization) ==
    /\ LET auth == get_current_user(users, authorization, now)
       IN IF auth.status # 200
          THEN /\ response' = Error("download", auth.status, auth.detail)
               /\ UNCHANGED wallpapers
          ELSE IF ~IsObjectIdString(wallpaper_id)
          THEN /\ response' = Error("download", 500, "Internal Server Error")
               /\ UNCHANGED wallpapers
          ELSE LET wp == FindById(wallpapers, ObjectId(wallpaper_id))
               IN IF wp = None
                  THEN /\ response' = Error("download", 404, "Wallpaper not found")
                       /\ UNCHANGED wallpapers
                  ELSE IF ~auth.user[1].subscribed
                  THEN /\ response' = Error("download", 402,
                               "Subscription required for full-resolution download")
                       /\ UNCHANGED wallpapers
                  ELSE /\ wp[1].downloads < MaxDownloads
                       /\ wallpapers' = UpdateInc(wallpapers, ObjectId(wallpaper_id),
                                                  "downloads", 1)
                       /\ response' = Ok("download", [url |-> wp[1].image_url])
    /\ UNCHANGED <<now, ticks, users, procs>>

Created(ws) == {i \in 1..Len(ws) : "author" \in DOMAIN ws[i]}

admin_create_wallpaper_any_role(body, authorization) ==
    /\ LET auth == get_current_user(users, authorization, now)
       IN IF auth.status # 200
          THEN /\ response' = Error("create", auth.status, auth.detail)
               /\ UNCHANGED wallpapers
          ELSE LET doc == Merge(body, [downloads |-> 0, created_at |-> now,
                                       updated_at |-> now])
               IN /\ Cardinality(Created(wallpapers)) < MaxCreated
                  /\ wallpapers' = InsertOne(wallpapers, doc)
                  /\ response' = Ok("create", Put(doc, "id", Str(Len(wallpapers) + 1)))
    /\ UNCHANGED <<now, ticks, users, procs>>

admin_create_wallpaper(body, authorization) ==
    /\ LET auth == get_current_user(users, authorization, now)
       IN IF auth.status # 200
          THEN /\ response' = Error("create", auth.status, auth.detail)
               /\ UNCHANGED wallpapers
          ELSE IF auth.user[1].role # "admin"
          THEN /\ response' = Error("create", 403, "Admin only")
               /\ UNCHANGED wallpapers
          ELSE LET doc == Merge(body, [downloads |-> 0, created_at |-> now,
                                       updated_at |-> now])
               IN /\ Cardinality(Created(wallpapers)) < MaxCreated
                  /\ wallpapers' = InsertOne(wallpapers, doc)
                  /\ response' = Ok("create", Put(doc, "id", Str(Len(wallpapers) + 1)))
    /\ UNCHANGED <<now, ticks, users, procs>>

seed_sample(authorization) ==
    /\ LET auth == get_current_user(users, authorization, now)
       IN IF auth.status # 200
          THEN /\ response' = Error("seed", auth.status, auth.detail)
               /\ UNCHANGED wallpapers
          ELSE IF auth.user[1].role # "admin"
          THEN /\ response' = Error("seed", 403, "Admin only")
               /\ UNCHANGED wallpapers
          ELSE /\ wallpapers' = SeedFrom(wallpapers, 1, now)
               /\ response' = Ok("seed", [status |-> "ok"])
    /\ UNCHANGED <<now, ticks, users, procs>>

(**************************** sequential runs ******************************)
(* Requests one after the other at one instant; a client sends no header, a *)
(* token just issued to a stored user, or a token signed with another key.  *)
ClientHeaders(us, t) ==
    {None, <<"Bearer", Some(JwtEncode([sub |-> Str(1), exp |-> t + ACCESS_TOKEN_EXPIRE_MINUTES],
                                      "guessed-key"))>>}
    \cup {<<"Bearer", Some(tok)>> : tok \in FreshTokens(us, t)}

Next ==
    \/ \E email \in Emails : register("n", email, "pw")
    \/ \E email \in Emails, password \in Passwords : login(email, password)
    \/ \E h \in ClientHeaders(users, now) : me(h)
    \/ \E h \in ClientHeaders(users, now), plan \in Plans : subscribe(plan, h)
    \/ \E h \in ClientHeaders(users, now), c \in Categories, l \in Limits :
          list_wallpapers(c, l, h)
    \/ \E h \in ClientHeaders(users, now), w \in WallpaperIds : download_wallpaper(w, h)
    \/ \E h \in ClientHeaders(users, now), b \in NewWallpapers : admin_create_wallpaper(b, h)
    \/ \E h \in ClientHeaders(users, now) : seed_sample(h)

Spec == Init /\ [][Next]_vars

(* the same requests against a store that starts without any user, hence *)
(* without an admin                                                        *)
InitNoAdmin ==
    /\ now = 0
    /\ ticks = 0
    /\ users = <<>>
    /\ wallpapers = <<>>
    /\ response = NoResponse
    /\ procs = [p \in 1..MaxProcs |-> [pc |-> "idle"]]

SpecNoAdmin == InitNoAdmin /\ [][Next]_vars

(**************************** runs over time *******************************)
(* A store that holds the admin, one registered user and the seeded        *)
(* catalog; the clock advances between requests and clients present every  *)
(* kind of Authorization header.                                           *)
InitTime ==
    /\ now = 0
    /\ ticks = 0
    /\ users = InsertOne(<<AdminDoc>>, UserDoc("n", "a@x.com", "pw", 0))
    /\ wallpapers = SeedFrom(<<>>, 1, 0)
    /\ response = NoResponse
    /\ procs = [p \in 1..MaxProcs |-> [pc |-> "idle"]]

TimePlans == {"free", "pro"}
TimeWallpaperIds == {"1"}

NextTime ==
    \/ \E d \in TickSteps : Tick(d)
    \/ \E password \in Passwords : login("a@x.com", password)
    \/ \E h \in Headers(users, now) : me(h)
    \/ \E h \in Headers(users, now), plan \in TimePlans : subscribe(plan, h)
    \/ \E h \in Headers(users, now) : list_wallpapers(None, 50, h)
    \/ \E h \in Headers(users, now), w \in TimeWallpaperIds : download_wallpaper(w, h)
    \/ \E h \in Headers(users, now) : seed_sample(h)

SpecTime == InitTime /\ [][NextTime]_vars

(**************************** interleaved runs *****************************)
(* MaxProcs requests are served at once, each by its own worker; a request *)
(* is one step per store operation, and steps of different requests        *)
(* interleave freely.  procs[p] is the position and the locals of the      *)
(* request worker p serves, and at the end the response it sent (with the  *)
(* id of the user a served download acted for).                            *)
Idle == [pc |-> "idle"]
Done(op, status, body) == [pc |-> "done", op |-> op, status |-> status, body |-> body]

Subscribed(doc, plan, t) == Merge(doc, Put(subscription(plan, t), "updated_at", t))

InitConc ==
    /\ now = 0
    /\ ticks = 0
    /\ users \in {<<Subscribed(AdminDoc, pa, 0),
                    Subscribed(Put(UserDoc("n", "a@x.com", "pw", 0), "_id", 2), pu, 0)>> :
                     pa \in {"free", "pro"}, pu \in {"free", "pro"}}
    /\ wallpapers = SeedFrom(<<>>, 1, 0)
    /\ response = NoResponse
    /\ procs = [p \in 1..MaxProcs |-> Idle]

(* download_wallpaper: get_current_user, find_one, update_one *)
DownloadAuth(p, wallpaper_id, authorization) ==
    /\ procs[p].pc = "idle"
    /\ LET auth == get_current_user(users, authorization, now)
       IN procs' = [procs EXCEPT ![p] =
             IF auth.status # 200
             THEN Done("download", auth.status, [detail |-> auth.detail])
             ELSE [pc |-> "download_find", current_user |-> auth.user[1],
                   wallpaper_id |-> wallpaper_id]]
    /\ UNCHANGED <<now, ticks, users, wallpapers, response>>

DownloadFind_no_subscription_check(p) ==
    /\ procs[p].pc = "download_find"
    /\ LET wp == IF IsObjectIdString(procs[p].wallpaper_id)
                 THEN FindById(wallpapers, ObjectId(procs[p].wallpaper_id))
                 ELSE None
       IN procs' = [procs EXCEPT ![p] =
             IF ~IsObjectIdString(procs[p].wallpaper_id)
             THEN Done("download", 500, [detail |-> "Internal Server Error"])
             ELSE IF wp = None
             THEN Done("download", 404, [detail |-> "Wallpaper not found"])
             ELSE [pc |-> "download_inc", current_user |-> procs[p].current_user,
                   wallpaper_id |-> procs[p].wallpaper_id, wp |-> wp[1]]]
    /\ UNCHANGED <<now, ticks, users, wallpapers, response>>

DownloadFind(p) ==
    /\ procs[p].pc = "download_find"
    /\ LET wp == IF IsObjectIdString(procs[p].wallpaper_id)
                 THEN FindById(wallpapers, ObjectId(procs[p].wallpaper_id))
                 ELSE None
       IN procs' = [procs EXCEPT ![p] =
             IF ~IsObjectIdString(procs[p].wallpaper_id)
             THEN Done("download", 500, [detail |-> "Internal Server Error"])
             ELSE IF wp = None
             THEN Done("download", 404, [detail |-> "Wallpaper not found"])
             ELSE IF ~procs[p].current_user.subscribed
             THEN Done("download", 402,
                       [detail |-> "Subscription required for full-resolution download"])
             ELSE [pc |-> "download_inc", current_user |-> procs[p].current_user,
                   wallpaper_id |-> procs[p].wallpaper_id, wp |-> wp[1]]]
    /\ UNCHANGED <<now, ticks, users, wallpapers, response>>

DownloadInc_read_modify_write(p) ==
    /\ procs[p].pc = "download_inc"
    /\ wallpapers' = UpdateSet(wallpapers, ObjectId(procs[p].wallpaper_id),
                               [downloads |-> procs[p].wp.downloads + 1])
    /\ procs' = [procs EXCEPT ![p] =
          Put(Done("download", 200, [url |-> procs[p].wp.image_url]),
              "user_id", procs[p].current_user.id)]
    /\ UNCHANGED <<now, ticks, users, response>>

DownloadInc(p) ==
    /\ procs[p].pc = "download_inc"
    /\ wallpapers' = UpdateInc(wallpapers, ObjectId(procs[p].wallpaper_id), "downloads", 1)
    /\ procs' = [procs EXCEPT ![p] =
          Put(Done("download", 200, [url |-> procs[p].wp.image_url]),
              "user_id", procs[p].current_user.id)]
    /\ UNCHANGED <<now, ticks, users, response>>

(* subscribe: get_current_user, update_one *)
SubscribeAuth(p, plan, authorization) ==
    /\ procs[p].pc = "idle"
    /\ LET auth == get_current_user(users, authorization, now)
       IN procs' = [procs EXCEPT ![p] =
             IF auth.status # 200
             THEN Done("subscribe", auth.status, [detail |-> auth.detail])
             ELSE IF plan \notin VALID_PLANS
             THEN Done("subscribe", 400, [detail |-> "Invalid plan"])
             ELSE [pc |-> "subscribe_update", current_user |-> auth.user[1], plan |-> plan]]
    /\ UNCHANGED <<now, ticks, users, wallpapers, response>>

SubscribeUpdate(p) ==
    /\ procs[p].pc = "subscribe_update"
    /\ users' = UpdateSet(users, ObjectId(procs[p].current_user.id),
                          Put(subscription(procs[p].plan, now), "updated_at", now))
    /\ procs' = [procs EXCEPT ![p] =
          Done("subscribe", 200, Put(subscription(procs[p].plan, now), "status", "ok"))]
    /\ UNCHANGED <<now, ticks, wallpapers, response>>

(* register: find_one, insert_one *)
RegisterFind(p, name, email, password) ==
    /\ procs[p].pc = "idle"
    /\ procs' = [procs EXCEPT ![p] =
          IF FindOneBy(users, "email", email) # None
          THEN Done("register", 400, [detail |-> "Email already registered"])
          ELSE [pc |-> "register_insert", name |-> name, email |-> email,
                password |-> password]]
    /\ UNCHANGED <<now, ticks, users, wallpapers, response>>

RegisterInsert(p) ==
    /\ procs[p].pc = "register_insert"
    /\ users' = InsertOne(users, UserDoc(procs[p].name, procs[p].email, procs[p].password, now))
    /\ procs' = [procs EXCEPT ![p] =
          Done("register", 200,
               [access_token |-> create_access_token([sub |-> Str(Len(users) + 1)], now),
                token_type |-> "bearer"])]
    /\ UNCHANGED <<now, ticks, wallpapers, response>>

ConcHeaders(us, t) == {None} \cup {<<"Bearer", Some(tok)>> : tok \in FreshTokens(us, t)}
ConcPlans == {"free", "pro", "gold"}
ConcWallpaperIds == {"1", "9"}
ConcEmails == {"a@x.com", "b@x.com"}

NextConc ==
    \E p \in 1..MaxProcs :
       \/ \E h \in ConcHeaders(users, now), w \in ConcWallpaperIds : DownloadAuth(p, w, h)
       \/ DownloadFind(p)
       \/ DownloadInc(p)
       \/ \E h \in ConcHeaders(users, now), plan \in ConcPlans : SubscribeAuth(p, plan, h)
       \/ SubscribeUpdate(p)
       \/ \E email \in ConcEmails : RegisterFind(p, "n", email, "pw")
       \/ RegisterInsert(p)

SpecConc == InitConc /\ [][NextConc]_vars

(**************************** end-to-end runs *****************************)
(* A client registers, logs in, subscribes and lists while the clock       *)
(* advances; it presents no header or a token the service has issued.      *)
InitFlow ==
    /\ now = 0
    /\ ticks = 0
    /\ users = <<AdminDoc>>
    /\ wallpapers = SeedFrom(<<>>, 1, 0)
    /\ response = NoResponse
    /\ procs = [p \in 1..MaxProcs |-> [pc |-> "idle"]]

FlowHeaders(us, t) == {None} \cup {<<"Bearer", Some(tok)>> : tok \in IssuedTokens(us, t)}

NextFlow ==
    \/ \E d \in TickSteps : Tick(d)
    \/ register("n", "a@x.com", "pw")
    \/ \E email \in Emails, password \in Passwords : login(email, password)
    \/ \E h \in FlowHeaders(users, now), plan \in VALID_PLANS : subscribe(plan, h)
    \/ \E h \in FlowHeaders(users, now) : list_wallpapers(None, 50, h)

SpecFlow == InitFlow /\ [][NextFlow]_vars

(**************************** properties ***********************************)
(* the header of a client that presents the token issued to user i at it *)
TokenHeader(i, it) == <<"Bearer", Some(create_access_token([sub |-> Str(i)], it))>>

(* C1: every stored user record satisfies subscribed == (plan != "free"),  *)
(* and the user a successful register has just stored has plan "free" and  *)
(* subscribed false.                                                       *)
C1_SubscribedIffPaidPlan ==
    /\ \A i \in 1..Len(users) : users[i].subscribed = (users[i].plan # "free")
    /\ (response.op = "register" /\ response.status = 200)
          => /\ users[Len(users)].plan = "free"
             /\ users[Len(users)].subscribed = FALSE
             /\ users[Len(users)].plan_ends_at = None

C1_Witness ==
    /\ response.op = "subscribe" /\ response.status = 200
    /\ \E i, j \in 1..Len(users) :
          /\ users[i].plan = "pro" /\ users[i].subscribed
          /\ users[j].plan = "free" /\ ~users[j].subscribed

(* C3: a download by an authenticated user of an existing wallpaper is     *)
(* refused with 402 and changes no counter when the user is not            *)
(* subscribed; otherwise it returns the stored image_url unmodified and    *)
(* adds exactly 1 to that wallpaper's downloads and changes no other       *)
(* wallpaper.                                                              *)
C3_DownloadOutcome ==
    [][response'.op = "download" =>
       \A i \in 1..Len(users), w \in 1..Len(wallpapers) :
          download_wallpaper(Str(w), TokenHeader(i, now)) =>
             IF users[i].subscribed
             THEN /\ response'.status = 200
                  /\ response'.body = [url |-> wallpapers[w].image_url]
                  /\ Len(wallpapers') = Len(wallpapers)
                  /\ wallpapers'[w] = [wallpapers[w] EXCEPT !.downloads = @ + 1]
                  /\ \A v \in 1..Len(wallpapers) : v # w => wallpapers'[v] = wallpapers[v]
             ELSE /\ response'.status = 402
                  /\ wallpapers' = wallpapers]_vars

C3_Witness ==
    /\ response.op = "download" /\ response.status = 200
    /\ Len(wallpapers) >= 2
    /\ wallpapers[2].downloads = 1
    /\ wallpapers[1].downloads = 0
    /\ response.body.url = wallpapers[2].image_url

(* C7: a subscribe call of an authenticated user with a plan outside       *)
(* {free, pro, elite} fails with 400 "Invalid plan" and changes no user     *)
(* record (plan, subscribed, plan_ends_at, updated_at of the caller and of *)
(* everyone else).                                                         *)
C7_InvalidPlanRejected ==
    [][response'.op = "subscribe" =>
       \A i \in 1..Len(users), plan \in Plans \ {"free", "pro", "elite"} :
          subscribe(plan, TokenHeader(i, now)) =>
             /\ response'.status = 400
             /\ response'.body.detail = "Invalid plan"
             /\ users' = users]_vars

C7_Witness ==
    /\ response.op = "subscribe" /\ response.status = 400
    /\ \E i \in 1..Len(users) : users[i].plan = "pro"

(* tok is a token the service issued to stored user i that has not expired *)
LiveTokenOf(tok, i) ==
    \E it \in IssueTimes(users[i], now) :
        /\ tok = create_access_token([sub |-> Str(i)], it)
        /\ now <= it + ACCESS_TOKEN_EXPIRE_MINUTES
(* the stored user the token part of header h stands for, if any *)
Bearers(h) == IF h = None \/ h[2] = None THEN {}
              ELSE {i \in 1..Len(users) : LiveTokenOf(h[2][1], i)}
Entitled(h) == \E i \in Bearers(h) : users[i].subscribed

(* C6: every item of a list response follows the content policy for the    *)
(* caller: for a live token of a user whose stored subscribed is true,     *)
(* watermarked = false and image_url is the stored image_url; otherwise    *)
(* watermarked = true and image_url is the stored one with "?wm=1"         *)
(* appended; every item's watermarked is the negation of the response's    *)
(* subscribed.                                                             *)
C6_ContentPolicy ==
    [][response'.op = "list" =>
       \A h \in Headers(users, now) :
          list_wallpapers(None, 50, h) =>
             \E entitled \in {Entitled(h)} :
                /\ response'.body.subscribed = entitled
                /\ \A k \in 1..Len(response'.body.items) :
                      \E item \in {response'.body.items[k]} :
                         \E stored \in {wallpapers[ObjectId(item.id)].image_url} :
                            /\ item.watermarked = ~response'.body.subscribed
                            /\ item.watermarked = ~entitled
                            /\ item.image_url = IF entitled THEN stored
                                                ELSE stored \o "?wm=1"]_vars

C6_Witness ==
    /\ response.op = "list" /\ response.status = 200
    /\ response.body.subscribed
    /\ Len(response.body.items) = 4
    /\ \A k \in 1..4 : /\ ~response.body.items[k].watermarked
                       /\ response.body.items[k].image_url = wallpapers[5 - k].image_url
    /\ \E i \in 1..Len(users) : ~users[i].subscribed

(* C5: list wallpapers answers 200 with subscribed = false, the very       *)
(* response an anonymous caller gets, and changes no stored state, for     *)
(* every header that carries no live token of a stored user: no header, no *)
(* token, a badly signed, expired or subject-less token, a subject that is *)
(* no stored user.                                                         *)
C5_ListNeverRejects ==
    [][response'.op = "list" =>
       \A h \in Headers(users, now) :
          (list_wallpapers(None, 50, h) /\ Bearers(h) = {}) =>
             /\ response'.status = 200
             /\ response'.body.subscribed = FALSE
             /\ \A k \in 1..Len(response'.body.items) : response'.body.items[k].watermarked
             /\ list_wallpapers(None, 50, None)
             /\ users' = users /\ wallpapers' = wallpapers]_vars

C5_Witness ==
    /\ response.op = "list" /\ response.status = 200
    /\ ~response.body.subscribed
    /\ Len(response.body.items) = 4
    /\ now > ACCESS_TOKEN_EXPIRE_MINUTES
    /\ \A i \in 1..Len(users) : users[i].subscribed

(* C2: once the clock has passed a user's plan_ends_at, list wallpapers    *)
(* with that user's token reports subscribed = false with every item       *)
(* watermarked, and download is refused with 402 and changes no counter.   *)
C2_LapsedPlanIsFree ==
    [][response'.op \in {"list", "download"} =>
       \A i \in 1..Len(users) :
          (users[i].plan_ends_at # None /\ users[i].plan_ends_at[1] < now) =>
             /\ list_wallpapers(None, 50, TokenHeader(i, now)) =>
                   /\ response'.body.subscribed = FALSE
                   /\ \A k \in 1..Len(response'.body.items) :
                         response'.body.items[k].watermarked
             /\ download_wallpaper("1", TokenHeader(i, now)) =>
                   /\ response'.status = 402
                   /\ wallpapers' = wallpapers]_vars

(* C8: subscribe(p) applied to a user whose stored plan is already p (a    *)
(* reapplication) leaves plan, subscribed and plan_ends_at as they were.   *)
C8_Idempotent ==
    [][response'.op = "subscribe" =>
       \A i \in 1..Len(users), p \in {"free", "pro", "elite"} :
          (users[i].plan = p /\ \E it \in IssueTimes(users[i], now) :
                                   /\ now <= it + ACCESS_TOKEN_EXPIRE_MINUTES
                                   /\ subscribe(p, TokenHeader(i, it))) =>
             /\ users'[i].plan = users[i].plan
             /\ users'[i].subscribed = users[i].subscribed
             /\ users'[i].plan_ends_at = users[i].plan_ends_at]_vars

(* C8 as amended: a reapplication leaves plan and subscribed as they were; *)
(* plan_ends_at stays null for free, and for a paid plan it becomes the    *)
(* time of this call plus 30 days, which differs from the earlier value    *)
(* whenever the clock has advanced since the earlier call.                 *)
C8_IdempotentPlanAndFlag ==
    [][response'.op = "subscribe" =>
       \A i \in 1..Len(users), p \in {"free", "pro", "elite"} :
          (users[i].plan = p /\ \E it \in IssueTimes(users[i], now) :
                                   /\ now <= it + ACCESS_TOKEN_EXPIRE_MINUTES
                                   /\ subscribe(p, TokenHeader(i, it))) =>
             /\ users'[i].plan = users[i].plan
             /\ users'[i].subscribed = users[i].subscribed
             /\ users'[i].plan_ends_at =
                   IF p = "free" THEN None ELSE Some(now + PLAN_DAYS * 24 * 60)
             /\ (users'[i].plan_ends_at = users[i].plan_ends_at)
                   = (p = "free" \/ users[i].updated_at = now)]_vars

C8_Witness ==
    /\ response.op = "subscribe" /\ response.status = 200
    /\ response.body.plan = "pro"
    /\ now = ACCESS_TOKEN_EXPIRE_MINUTES
    /\ response.body.plan_ends_at = Some(now + PLAN_DAYS * 24 * 60)
    /\ \A i \in 1..Len(users) :
          /\ users[i].plan = "pro"
          /\ users[i].plan_ends_at \in {Some(PLAN_DAYS * 24 * 60), Some(now + PLAN_DAYS * 24 * 60)}
    /\ \E i \in 1..Len(users) : users[i].updated_at = 0

(* C10: the body of a successful me response has no password_hash and no   *)
(* _id field and carries the user's identifier as the string field id.     *)
C10_MeHidesSecrets ==
    (response.op = "me" /\ response.status = 200) =>
       /\ "password_hash" \notin DOMAIN response.body
       /\ "_id" \notin DOMAIN response.body
       /\ "id" \in DOMAIN response.body
       /\ response.body.id \in {Str(i) : i \in 1..Len(users)}

(* the stored users an authenticated endpoint must act for on header h: a  *)
(* Bearer scheme (in any case) with a live token of a stored user          *)
AuthenticatedAs(h) ==
    IF h = None THEN {}
    ELSE IF h[1] \notin {"Bearer", "bearer", "BEARER"} THEN {}
    ELSE Bearers(h)
(* a correctly signed token whose subject is no ObjectId string *)
UnparsableSubject(h) ==
    /\ h # None
    /\ h[2] # None
    /\ h[2][1] \in {create_access_token([sub |-> x], now) : x \in {"not-an-oid", ""}}
Denied == response'.status = 401 /\ users' = users /\ wallpapers' = wallpapers

(* C9: me, subscribe, download and the admin endpoint act for user U on a  *)
(* token issued to U at t while now <= t + 7 days, and answer 401 without  *)
(* any state change once now > t + 7 days; no header, a non-Bearer scheme, *)
(* a tampered token, a token without subject and a token whose subject is  *)
(* no stored user are answered 401 without any state change.               *)
C9_TokenLifetime ==
    [][response'.op \in {"me", "subscribe", "download", "seed"} =>
       \A h \in Headers(users, now) :
          /\ (response'.op = "me" /\ me(h) /\ ~UnparsableSubject(h)) =>
                \E who \in {AuthenticatedAs(h)} :
                   IF who = {} THEN Denied
                   ELSE \E i \in who : /\ response'.status = 200
                                       /\ response'.body.id = Str(i)
                                       /\ response'.body.email = users[i].email
          /\ response'.op = "subscribe" =>
                \A p \in TimePlans :
                   (subscribe(p, h) /\ ~UnparsableSubject(h)) =>
                      \E who \in {AuthenticatedAs(h)} :
                         IF who = {} THEN Denied
                         ELSE \E i \in who :
                                 /\ response'.status = 200
                                 /\ users'[i].plan = p
                                 /\ users'[i].updated_at = now
                                 /\ \A j \in 1..Len(users) : j # i => users'[j] = users[j]
          /\ response'.op = "download" =>
                \A w \in TimeWallpaperIds :
                   (download_wallpaper(w, h) /\ ~UnparsableSubject(h)) =>
                      \E who \in {AuthenticatedAs(h)} :
                         IF who = {} THEN Denied
                         ELSE \E i \in who :
                                 /\ response'.status # 401
                                 /\ w = "1" => response'.status =
                                                 IF users[i].subscribed THEN 200 ELSE 402
          /\ (response'.op = "seed" /\ seed_sample(h) /\ ~UnparsableSubject(h)) =>
                \E who \in {AuthenticatedAs(h)} :
                   IF who = {} THEN Denied
                   ELSE \E i \in who :
                           response'.status = IF users[i].role = "admin" THEN 200 ELSE 403]_vars

C9_Witness ==
    /\ response.op = "download" /\ response.status = 401
    /\ response.body.detail = "Invalid token"
    /\ now > ACCESS_TOKEN_EXPIRE_MINUTES
    /\ wallpapers[1].downloads = 0
    /\ \A i \in 1..Len(users) : users[i].subscribed

(* the requests that have been answered with a successful download of w *)
Served(w) == {p \in 1..MaxProcs : /\ procs[p].pc = "done"
                                  /\ procs[p].op = "download"
                                  /\ procs[p].status = 200
                                  /\ procs[p].body.url = wallpapers[w].image_url}

(* C4: under every interleaving of the steps of concurrent downloads (and  *)
(* of subscribe and register requests), a wallpaper's downloads counter,   *)
(* which starts at 0, equals the number of downloads of it that have been  *)
(* answered with success: N concurrent downloads by subscribed users leave *)
(* it exactly N higher.                                                    *)
C4_NoLostDownload ==
    \A w \in 1..Len(wallpapers) : wallpapers[w].downloads = Cardinality(Served(w))

C4_Witness ==
    /\ wallpapers[1].downloads = 2
    /\ Cardinality(Served(1)) = 2
    /\ \E p, q \in Served(1) : procs[p].user_id # procs[q].user_id

(* C11: email is a unique key of users, also when the steps of register    *)
(* calls for the same email (lookup by email, then insert) interleave: no  *)
(* two stored user records have the same email.                            *)
C11_EmailUnique ==
    \A i, j \in 1..Len(users) : users[i].email = users[j].email => i = j

(* C12: admin create wallpaper and admin seed called with the token of a   *)
(* stored user whose role is not "admin" answer 403 and leave the          *)
(* wallpaper collection unchanged; called with an admin's token they       *)
(* answer 200, and create appends exactly one wallpaper, with downloads 0  *)
(* and the fields of the request, and changes no existing wallpaper.       *)
C12_AdminGate ==
    [][response'.op \in {"create", "seed"} =>
       \A i \in 1..Len(users) :
          /\ \A b \in NewWallpapers :
                admin_create_wallpaper(b, TokenHeader(i, now)) =>
                   IF users[i].role = "admin"
                   THEN /\ response'.status = 200
                        /\ Len(wallpapers') = Len(wallpapers) + 1
                        /\ SubSeq(wallpapers', 1, Len(wallpapers)) = wallpapers
                        /\ wallpapers'[Len(wallpapers')].downloads = 0
                        /\ wallpapers'[Len(wallpapers')].title = b.title
                        /\ wallpapers'[Len(wallpapers')].image_url = b.image_url
                        /\ response'.body.id = Str(Len(wallpapers'))
                   ELSE /\ response'.status = 403
                        /\ wallpapers' = wallpapers
          /\ seed_sample(TokenHeader(i, now)) =>
                IF users[i].role = "admin"
                THEN response'.status = 200
                ELSE /\ response'.status = 403
                     /\ wallpapers' = wallpapers]_vars

C12_Witness ==
    /\ response.op = "create" /\ response.status = 403
    /\ response.body.detail = "Admin only"
    /\ Len(wallpapers) = 5
    /\ Created(wallpapers) # {}
    /\ \E i \in 1..Len(users) : users[i].role = "user"

(* the stored wallpapers that carry a title *)
Titled(ws, title) == {k \in 1..Len(ws) : ws[k].title = title}
SampleTitles == {samples[n].title : n \in 1..Len(samples)}

(* C13: a successful seed call leaves every existing wallpaper (its        *)
(* downloads counter included) unchanged and, for each sample title,       *)
(* inserts one wallpaper with downloads 0 when the title was absent and    *)
(* none when it was present; it inserts nothing else, so a seed call made  *)
(* after an earlier seed call has completed changes nothing.               *)
C13_SeedIdempotent ==
    [][response'.op = "seed" =>
       \A i \in 1..Len(users) :
          (users[i].role = "admin" /\ seed_sample(TokenHeader(i, now))) =>
             /\ response'.status = 200
             /\ SubSeq(wallpapers', 1, Len(wallpapers)) = wallpapers
             /\ \A title \in SampleTitles :
                   Cardinality(Titled(wallpapers', title)) =
                      IF Titled(wallpapers, title) = {} THEN 1
                      ELSE Cardinality(Titled(wallpapers, title))
             /\ \A k \in (Len(wallpapers) + 1)..Len(wallpapers') :
                   /\ wallpapers'[k].title \in SampleTitles
                   /\ Titled(wallpapers, wallpapers'[k].title) = {}
                   /\ wallpapers'[k].downloads = 0
             /\ (\A title \in SampleTitles : Titled(wallpapers, title) # {})
                   => wallpapers' = wallpapers]_vars

C13_Witness ==
    /\ response.op = "seed" /\ response.status = 200
    /\ Len(wallpapers) = 4
    /\ wallpapers[1].title = "Galactic Neon Wave"
    /\ wallpapers[1].downloads = 1
    /\ \A title \in SampleTitles : Cardinality(Titled(wallpapers, title)) = 1

(* the subscription state of a user record *)
SubscriptionState(u) == <<u.plan, u.subscribed, u.plan_ends_at>>

(* C14: no step removes a user record, and the plan, subscribed and        *)
(* plan_ends_at of an existing record change only in a successful          *)
(* subscribe call made with that user's own token: register, login, me,    *)
(* list wallpapers, download, admin create and admin seed leave them       *)
(* unchanged for every user, and a subscribe call changes no record other  *)
(* than the caller's.                                                      *)
C14_OnlySubscribeMutates ==
    [][/\ Len(users') >= Len(users)
       /\ response'.op # "subscribe" =>
             \A i \in 1..Len(users) : users'[i] = users[i]
       /\ response'.op = "subscribe" =>
             \A i \in 1..Len(users) :
                /\ SubscriptionState(users'[i]) # SubscriptionState(users[i]) =>
                      /\ response'.status = 200
                      /\ \E plan \in VALID_PLANS : subscribe(plan, TokenHeader(i, now))
                /\ \A plan \in Plans :
                      subscribe(plan, TokenHeader(i, now)) =>
                         \A j \in 1..Len(users) : j # i => users'[j] = users[j]]_vars

C14_Witness ==
    /\ response.op = "subscribe" /\ response.status = 200
    /\ response.body.plan = "elite"
    /\ Len(users) = 2
    /\ SubscriptionState(users[1]) = <<"pro", TRUE, Some(PlanMinutes)>>
    /\ SubscriptionState(users[2]) = <<"elite", TRUE, Some(PlanMinutes)>>

(* C15: no step removes a wallpaper; a wallpaper's downloads counter never *)
(* decreases and moves, by exactly 1, only in a download call of that      *)
(* wallpaper that is answered with success, so it always equals the number *)
(* of such calls; a wallpaper enters the catalog only through a successful *)
(* admin create or admin seed, with downloads 0; list wallpapers,          *)
(* subscribe, register, login, me and refused downloads change no counter. *)
C15_DownloadsCounter ==
    [][/\ Len(wallpapers') >= Len(wallpapers)
       /\ \A w \in 1..Len(wallpapers) :
             /\ wallpapers'[w].downloads >= wallpapers[w].downloads
             /\ wallpapers'[w].downloads - wallpapers[w].downloads =
                   IF /\ response'.op = "download" /\ response'.status = 200
                      /\ \E h \in ClientHeaders(users, now) : download_wallpaper(Str(w), h)
                   THEN 1 ELSE 0
             /\ Pop(wallpapers'[w], "downloads") = Pop(wallpapers[w], "downloads")
       /\ \A w \in (Len(wallpapers) + 1)..Len(wallpapers') :
             /\ wallpapers'[w].downloads = 0
             /\ response'.op \in {"create", "seed"} /\ response'.status = 200]_vars

C15_Witness ==
    /\ response.op = "download" /\ response.status = 402
    /\ Len(wallpapers) = 5
    /\ wallpapers[1].downloads = 1
    /\ wallpapers[2].downloads = 0
    /\ wallpapers[5].downloads = 0

(* what the token of the latest register or login response authenticates as *)
C16_TokenUser ==
    get_current_user(users', <<"Bearer", Some(response'.body.access_token)>>, now')

(* C16: the token a successful register or login returns authenticates     *)
(* the user it was issued to until it expires; subscribe with a live token *)
(* of user U and plan p answers plan = p, subscribed = (p != "free") and   *)
(* stores them; a list call with a live token of U, whenever it was        *)
(* issued (before or after U's latest subscribe), has every item           *)
(* watermarked exactly when U's stored subscribed is false at the time of  *)
(* the call, and a list call without a header has every item watermarked.  *)
C16_EntitlementFollowsStore ==
    [][/\ (response'.op \in {"register", "login"} /\ response'.status = 200
           /\ now' <= response'.body.access_token.claims.exp) =>
             C16_TokenUser.status = 200
       /\ (register("n", "a@x.com", "pw") /\ response'.status = 200) =>
             /\ C16_TokenUser.user[1].id = Str(Len(users'))
             /\ C16_TokenUser.user[1].email = "a@x.com"
       /\ \A email \in Emails, password \in Passwords :
             (login(email, password) /\ response'.status = 200) =>
                /\ C16_TokenUser.user[1].email = email
                /\ verify_password(password, C16_TokenUser.user[1].password_hash)
       /\ response'.op \in {"subscribe", "list"} =>
             \A i \in 1..Len(users) :
                \A it \in {x \in IssueTimes(users[i], now) :
                              now <= x + ACCESS_TOKEN_EXPIRE_MINUTES} :
                   /\ \A p \in VALID_PLANS :
                         subscribe(p, TokenHeader(i, it)) =>
                            /\ response'.status = 200
                            /\ response'.body.plan = p
                            /\ response'.body.subscribed = (p # "free")
                            /\ users'[i].plan = p
                            /\ users'[i].subscribed = (p # "free")
                   /\ list_wallpapers(None, 50, TokenHeader(i, it)) =>
                         /\ Len(response'.body.items) = Len(wallpapers)
                         /\ \A k \in 1..Len(response'.body.items) :
                               response'.body.items[k].watermarked = ~users[i].subscribed
       /\ (response'.op = "list" /\ list_wallpapers(None, 50, None)) =>
             /\ Len(response'.body.items) = Len(wallpapers)
             /\ \A k \in 1..Len(response'.body.items) :
                   response'.body.items[k].watermarked]_vars

(* a@x.com registered at 0 and went pro a token lifetime later; a list    *)
(* call made then is answered with no item watermarked                     *)
C16_Witness ==
    /\ response.op = "list" /\ response.status = 200
    /\ Len(response.body.items) = 4
    /\ \A k \in 1..Len(response.body.items) : ~response.body.items[k].watermarked
    /\ Len(users) = 2
    /\ users[2].email = "a@x.com" /\ users[2].created_at = 0
    /\ users[2].plan = "pro" /\ users[2].updated_at = ACCESS_TOKEN_EXPIRE_MINUTES
    /\ users[1].plan = "free"
    /\ now = ACCESS_TOKEN_EXPIRE_MINUTES

(* the stored record of the user request p was authenticated as *)
StoredUser(p) == users[ObjectId(procs[p].current_user.id)]

(* C17: every download step that increments a downloads counter is made on *)
(* behalf of a user whose stored record is subscribed at the moment of the *)
(* increment, whatever steps of other requests came in between.            *)
C17_SubscribedAtIncrement ==
    [][\A p \in 1..MaxProcs : DownloadInc(p) => StoredUser(p).subscribed]_vars

(* C17 as amended: the download decides on the record it read when it      *)
(* authenticated: the record a download carries is the stored one at that  *)
(* moment, it is carried unchanged up to the increment, and every          *)
(* increment is made for a carried record that is subscribed, while the    *)
(* stored record may have been set to free in between.                     *)
C17_SubscribedAtAuthentication ==
    [][\A p \in 1..MaxProcs :
          /\ (procs[p].pc = "idle" /\ procs'[p].pc = "download_find") =>
                /\ procs'[p].current_user.subscribed = StoredUser(p)'.subscribed
                /\ procs'[p].current_user.plan = StoredUser(p)'.plan
          /\ (procs[p].pc = "download_find" /\ procs'[p].pc = "download_inc") =>
                procs'[p].current_user = procs[p].current_user
          /\ DownloadInc(p) =>
                /\ procs[p].current_user.subscribed
                /\ wallpapers'[ObjectId(procs[p].wallpaper_id)].downloads =
                      wallpapers[ObjectId(procs[p].wallpaper_id)].downloads + 1]_vars

(* a download is about to increment for a user whose stored record another *)
(* request has set to free since the download authenticated                *)
C17_Witness ==
    \E p, q \in 1..MaxProcs :
       /\ procs[p].pc = "download_inc"
       /\ procs[p].current_user.subscribed
       /\ ~StoredUser(p).subscribed
       /\ procs[q].pc = "done" /\ procs[q].op = "subscribe" /\ procs[q].status = 200
       /\ procs[q].body.plan = "free"

(* C18: starting from a store without admin users, every stored user has   *)
(* role "user" in every state, every admin create wallpaper and admin seed *)
(* call is answered 403, and the wallpaper collection stays empty.         *)
C18_NoAdminEver ==
    /\ \A i \in 1..Len(users) : users[i].role = "user"
    /\ wallpapers = <<>>
    /\ response.op \in {"create", "seed"} => response.status = 403

(* C18 as amended: no step changes the role of a stored user and register  *)
(* stores role "user"; starting from a store without admin users, admin    *)
(* create wallpaper and admin seed are answered 403 when called with the   *)
(* token of a stored user and 401 when called without a valid token, never *)
(* with success, and the wallpaper collection stays empty.                 *)
C18_NoAdminRefused ==
    [][/\ \A i \in 1..Len(users) : users'[i].role = users[i].role
       /\ \A i \in 1..Len(users') : users'[i].role = "user"
       /\ wallpapers' = <<>>
       /\ response'.op \in {"create", "seed"} =>
             /\ response'.status \in {401, 403}
             /\ \A i \in 1..Len(users) :
                   /\ \A b \in NewWallpapers :
                         admin_create_wallpaper(b, TokenHeader(i, now)) =>
                            response'.status = 403
                   /\ seed_sample(TokenHeader(i, now)) => response'.status = 403
             /\ \A h \in ClientHeaders(users, now) \ {TokenHeader(i, now) : i \in 1..Len(users)} :
                   /\ \A b \in NewWallpapers :
                         admin_create_wallpaper(b, h) => response'.status = 401
                   /\ seed_sample(h) => response'.status = 401]_vars

C18_Witness ==
    /\ response.op = "seed" /\ response.status = 403
    /\ Len(users) = 2
    /\ users[1].plan = "elite" /\ users[2].plan = "pro"
    /\ \A i \in 1..Len(users) : users[i].role = "user"
    /\ wallpapers = <<>>

====
